---- MODULE Spec2Model ----
(***************************************************************************)
(* The birthday-card workflow (generateBirthdayCard), its step functions,  *)
(* and the three POST handlers that start it.  One request and the run it  *)
(* starts are modelled.  The durable runtime the code relies on ('use      *)
(* workflow', 'use step', createWebhook, sleep, start) is modelled as      *)
(* memoized steps with bounded retries, webhook waits and one timer.       *)
(***************************************************************************)
EXTENDS Integers, Sequences, FiniteSets, TLC

\* ---------------------------------------------------------------- bounds
MaxGuests == 2
MaxAttempts == 2
MaxRestarts == 1
MaxClock == 15
TickSeconds == 5

\* ------------------------------------------------------ program constants
\* generate-birthday-card.ts:31  const sleepDuration = '10 seconds'
sleepDuration == 10

\* ------------------------------------------------------------ JSON values
Null == "<absent>"
JUndef == [type |-> "undefined", val |-> ""]
JStr(s) == [type |-> "string", val |-> s]
JNum(s) == [type |-> "number", val |-> s]
JArray(e) == [type |-> "array", val |-> e]
JNoArray == [type |-> "undefined", val |-> <<>>]

\* JavaScript truthiness of a JSON value ('' , 0 and undefined are falsy)
Truthy(v) ==
    /\ v.type # "undefined"
    /\ ~(v.type = "string" /\ v.val = "")
    /\ ~(v.type = "number" /\ v.val = "0")

\* `!x || typeof x !== 'string'`
NotAString(v) == ~Truthy(v) \/ v.type # "string"

Guests == {"a@x.com", "b@x.com"}
PromptInputs == {JStr("a beach at sunset"), JStr(""), JUndef, JNum("42")}
RecipientInputs == {JStr("r@x.com"), JUndef, JNum("7")}
\* absent, far future, past, unparsable
EventDateInputs == {JUndef, JStr("2099-01-01"), JStr("2000-01-01"), JStr("not a date")}

RECURSIVE SeqsUpTo(_, _)
SeqsUpTo(S, n) ==
    IF n = 0 THEN {<<>>}
    ELSE LET shorter == SeqsUpTo(S, n - 1)
         IN  shorter \cup {Append(s, x) : s \in {t \in shorter : Len(t) = n - 1}, x \in S}

RsvpInputs == SeqsUpTo(Guests, MaxGuests)

\* ------------------------------------------------------------------ state
VARIABLES
    handler,      \* which POST handler received the request
    req,          \* the request body
    hpc,          \* handler position: idle, awaiting, responded
    resp,         \* the HTTP response
    args,         \* the arguments start() passed to generateBirthdayCard
    runStatus,    \* none, running, completed, failed
    runResult,    \* the run's return value or error
    steps,        \* step key -> recorded state of the step (durable)
    successes,    \* step key -> number of recorded successes
    hooks,        \* webhook waits, by token (durable)
    timer,        \* the sleep's timer (durable)
    now,          \* wall clock, seconds
    pc,           \* position of the orchestrating process (volatile)
    image, text, rsvpReplies,   \* locals of generateBirthdayCard (volatile)
    restarts,     \* process restarts so far
    notifyAt,     \* clock when sendRecipientEmail was first invoked, or -1
    sentParams,   \* params sendRecipientEmail was invoked with
    rsvpCalls     \* webhook index -> arguments requestRsvp was invoked with

vars == <<handler, req, hpc, resp, args, runStatus, runResult, steps, successes,
          hooks, timer, now, pc, image, text, rsvpReplies, restarts, notifyAt,
          sentParams, rsvpCalls>>


\* ---------------------------------------------------------- step functions
\* What a step function hands back to the runtime: a value, or a throw.
Ok(v) == [ok |-> TRUE, val |-> v]
Threw(msg) == [ok |-> FALSE, val |-> msg]

\* A data URI is kept as its comma-separated segments, so that
\* cardImage.split(',') is the sequence itself.
DataUri(mediaType, base64) == <<"data:" \o mediaType \o ";base64", base64>>
NoImage == <<>>

ImageProviderResults ==
    { [threw |-> TRUE,  base64 |-> "",     mimeType |-> ""],
      [threw |-> FALSE, base64 |-> "",     mimeType |-> ""],
      [threw |-> FALSE, base64 |-> "QUJD", mimeType |-> ""] }

TextProviderResults ==
    { [threw |-> TRUE,  text |-> ""],
      [threw |-> FALSE, text |-> ""],
      [threw |-> FALSE, text |-> "Happy Birthday!"] }

\* generate-image.ts: throws when the provider gave no base64 image
generateImageStep(r) ==
    IF r.threw THEN Threw("provider error")
    ELSE IF r.base64 = "" THEN Threw("Failed to generate image")
    ELSE LET mediaType == IF r.mimeType = "" THEN "image/png" ELSE r.mimeType
         IN  Ok(DataUri(mediaType, r.base64))

\* generate-message.ts: returns the provider's text unchecked
generateMessage(r) ==
    IF r.threw THEN Threw("provider error") ELSE Ok(r.text)

\* generate-prompts.ts is not in the sources: it yields the two prompts or throws
generatePrompts(prompt, threw) ==
    IF threw THEN Threw("provider error")
    ELSE Ok([textPrompt |-> "text: " \o prompt, imagePrompt |-> "image: " \o prompt])

\* request-rsvp.ts: sends the mail, rethrows a failure of the send
requestRsvp(email, webhookUrl, sendThrew) ==
    IF sendThrew THEN Threw("send failed")
    ELSE Ok([email |-> email, success |-> TRUE])

\* send-recipient-email.ts: the attachment is the second segment of the data URI
sendRecipientEmail(params, sendThrew) ==
    IF Len(params.cardImage) < 2 THEN Threw("TypeError")
    ELSE IF sendThrew THEN Threw("send failed")
    ELSE Ok([success |-> TRUE, recipientEmail |-> params.recipientEmail,
             rsvpCount |-> Len(params.rsvpReplies)])

\* ------------------------------------------------------------- step keys
Key(name, ordinal) == <<name, ordinal>>
kPrompts == Key("generatePrompts", 1)
kImage == Key("generateImage", 1)
kMessage == Key("generateMessage", 1)
kNotify == Key("sendRecipientEmail", 1)
kRsvp(i) == Key("requestRsvp", i)
StepKeys == {kPrompts, kImage, kMessage, kNotify} \cup {kRsvp(i) : i \in 1..MaxGuests}

NoStep == [status |-> "none", attempts |-> 0, out |-> Threw("")]

\* ------------------------------------------- runtime: memoized step calls
\* Invoke without the memo: every call schedules the body again
Invoke_NoMemo(s, K) ==
    [k \in DOMAIN s |->
        IF k \in K THEN [s[k] EXCEPT !.status = "scheduled"] ELSE s[k]]

\* Calling a step: the body is scheduled only when the key has no record yet.
Invoke(s, K) ==
    [k \in DOMAIN s |->
        IF k \in K /\ s[k].status = "none"
        THEN [s[k] EXCEPT !.status = "scheduled"] ELSE s[k]]

\* retries without a bound: a throwing step is attempted again for ever
Settle_Unbounded(st, r) ==
    IF r.ok THEN [status |-> "ok", attempts |-> 0, out |-> r]
    ELSE [st EXCEPT !.attempts = (st.attempts + 1) % MaxAttempts]

\* One attempt of a scheduled step finished with r: success is recorded, a
\* throw is retried until the attempts are exhausted.  `attempts` counts the
\* failed attempts of a step in flight; a settled step keeps no count.
Settle(st, r) ==
    IF r.ok THEN [status |-> "ok", attempts |-> 0, out |-> r]
    ELSE IF st.attempts + 1 >= MaxAttempts
         THEN [status |-> "failed", attempts |-> 0, out |-> r]
         ELSE [st EXCEPT !.attempts = st.attempts + 1]

Settled(k) == steps[k].status \in {"ok", "failed"}
Succeeded(k) == steps[k].status = "ok"
Exhausted(k) == steps[k].status = "failed"

\* ------------------------------------------------ runtime: webhook waits
Tokens == 1..MaxGuests
UnknownToken == 0
\* `order` is the position of the wait's resolution among the resolutions of the run
NoHook == [created |-> FALSE, resolved |-> FALSE, order |-> 0,
           request |-> [reply |-> Null, email |-> Null]]
ResolvedCount(h) == Cardinality({t \in DOMAIN h : h[t].resolved})
Url(i) == <<"https://app/.well-known/workflow/v1/webhook", i>>

\* the query of an inbound call: reply and email, Null when the parameter is absent
Requests ==
    { [reply |-> "yes",   email |-> "a@x.com"],
      [reply |-> "maybe", email |-> Null],
      [reply |-> "",      email |-> "b@x.com"] }

\* createWebhook() for each of the first n guests
createWebhook(h, n) ==
    [i \in DOMAIN h |->
        IF i <= n /\ ~h[i].created THEN [h[i] EXCEPT !.created = TRUE] ELSE h[i]]

\* generate-birthday-card.ts:89-95, the callback of webhook.then
ReplyOf(request) ==
    [email |-> IF request.email \in {Null, ""} THEN "unknown" ELSE request.email,
     reply |-> IF request.reply \in {Null, ""} THEN "no-response" ELSE request.reply]

\* the replies kept in process memory only: nothing to collect after a restart
CollectReplies_InMemory(h, n) ==
    IF restarts = 0 THEN [i \in 1..n |-> ReplyOf(h[i].request)] ELSE <<>>

\* only the guests who answered are kept: later replies move up
CollectReplies_Answered(h, n) ==
    SelectSeq([i \in 1..n |-> ReplyOf(h[i].request)],
              LAMBDA r : r.reply # "no-response")

\* the replies pushed to the list as the webhooks resolve: resolution order
CollectReplies_AsResolved(h, n) ==
    [p \in 1..n |-> ReplyOf(h[CHOOSE t \in 1..n : h[t].order = p].request)]

\* Promise.all over webhooks.map(...): results keep the index order
CollectReplies(h, n) == [i \in 1..n |-> ReplyOf(h[i].request)]

\* ------------------------------------------------------- runtime: timer
NoTimer == [created |-> FALSE, deadline |-> 0, fired |-> FALSE]
sleep(t, duration) ==
    IF t.created THEN t ELSE [created |-> TRUE, deadline |-> now + duration, fired |-> FALSE]


\* ------------------------------------------------------------------- Init
NoResp == [status |-> 0, body |-> [none |-> TRUE]]
NoArgs == [prompt |-> JUndef, recipientEmail |-> JUndef,
           rsvpEmails |-> JNoArray, eventDate |-> JUndef]
NoParams == [recipientEmail |-> JUndef, cardImage |-> NoImage, cardText |-> "",
             rsvpReplies |-> <<>>]
NoCall == [email |-> "", webhookUrl |-> <<>>]

Init ==
    /\ handler = "none"
    /\ req = NoArgs
    /\ hpc = "idle"
    /\ resp = NoResp
    /\ args = NoArgs
    /\ runStatus = "none"
    /\ runResult = [none |-> TRUE]
    /\ steps = [k \in StepKeys |-> NoStep]
    /\ successes = [k \in StepKeys |-> 0]
    /\ hooks = [i \in Tokens |-> NoHook]
    /\ timer = NoTimer
    /\ now = 0
    /\ pc = "start"
    /\ image = NoImage
    /\ text = ""
    /\ rsvpReplies = <<>>
    /\ restarts = 0
    /\ notifyAt = -1
    /\ sentParams = NoParams
    /\ rsvpCalls = [i \in Tokens |-> NoCall]

\* ---------------------------------------------------------- entry gateway
Bodies ==
    [prompt : PromptInputs, recipientEmail : RecipientInputs,
     rsvpEmails : {JNoArray} \cup {JArray(e) : e \in RsvpInputs},
     eventDate : EventDateInputs]

\* `const { ..., rsvpEmails = [], ... } = body`
DefaultEmpty(v) == IF v.type = "undefined" THEN JArray(<<>>) ELSE v

\* `eventDate ? new Date(eventDate) : undefined`; a string that is no date
\* gives an Invalid Date
ToDate(v) ==
    IF ~Truthy(v) THEN JUndef
    ELSE IF v.val = "not a date" THEN [type |-> "date", val |-> "Invalid Date"]
    ELSE [type |-> "date", val |-> v.val]

Respond(status, body) ==
    /\ resp' = [status |-> status, body |-> body]
    /\ hpc' = "responded"

\* start(generateBirthdayCard, a): the run exists and is queued
start(a) ==
    /\ args' = a
    /\ runStatus' = "running"

NoRun == UNCHANGED <<args, runStatus>>

runFrame == <<runResult, steps, successes, hooks, timer, now, pc, image, text,
              rsvpReplies, restarts, notifyAt, sentParams, rsvpCalls>>

\* route.ts: validates the prompt only and passes the prompt only
POST_route ==
    /\ hpc = "idle"
    /\ \E body \in Bodies :
        /\ handler' = "route"
        /\ req' = body
        /\ IF NotAString(body.prompt)
           THEN /\ Respond(400, [error |-> "Prompt is required and must be a string"])
                /\ NoRun
           ELSE /\ start([NoArgs EXCEPT !.prompt = body.prompt])
                /\ hpc' = "awaiting"
                /\ resp' = resp
    /\ UNCHANGED runFrame

\* the handler that always awaits the run's return value
POST_full ==
    /\ hpc = "idle"
    /\ \E body \in Bodies :
        /\ handler' = "full"
        /\ req' = body
        /\ IF NotAString(body.prompt)
           THEN /\ Respond(400, [error |-> "Prompt is required and must be a string"])
                /\ NoRun
           ELSE IF NotAString(body.recipientEmail)
           THEN /\ Respond(400, [error |-> "Recipient email is required"])
                /\ NoRun
           ELSE /\ start([prompt |-> body.prompt, recipientEmail |-> body.recipientEmail,
                          rsvpEmails |-> DefaultEmpty(body.rsvpEmails),
                          eventDate |-> ToDate(body.eventDate)])
                /\ hpc' = "awaiting"
                /\ resp' = resp
    /\ UNCHANGED runFrame

\* the handler that returns at once when there are guests
POST_form ==
    /\ hpc = "idle"
    /\ \E body \in Bodies :
        /\ handler' = "form"
        /\ req' = body
        /\ IF NotAString(body.prompt)
           THEN /\ Respond(400, [error |-> "Prompt is required and must be a string"])
                /\ NoRun
           ELSE IF NotAString(body.recipientEmail)
           THEN /\ Respond(400, [error |-> "Recipient email is required"])
                /\ NoRun
           ELSE /\ start([prompt |-> body.prompt, recipientEmail |-> body.recipientEmail,
                          rsvpEmails |-> DefaultEmpty(body.rsvpEmails),
                          eventDate |-> ToDate(body.eventDate)])
                /\ IF Len(DefaultEmpty(body.rsvpEmails).val) > 0
                   THEN Respond(200, [status |-> "started", workflowId |-> "run-1"])
                   ELSE /\ hpc' = "awaiting"
                        /\ resp' = resp
    /\ UNCHANGED runFrame

\* the started answer without its `return`: the handler goes on to await the run
returnValue_NoReturn ==
    /\ \/ hpc = "awaiting"
       \/ hpc = "responded" /\ "status" \in DOMAIN resp.body
    /\ runStatus \in {"completed", "failed"}
    /\ IF runStatus = "completed"
       THEN Respond(200, runResult)
       ELSE Respond(500, [error |-> runResult.error, fatal |-> FALSE])
    /\ UNCHANGED <<handler, req, args, runStatus>>
    /\ UNCHANGED runFrame

\* `await result.returnValue`, then the response or the catch block
returnValue ==
    /\ hpc = "awaiting"
    /\ runStatus \in {"completed", "failed"}
    /\ IF runStatus = "completed"
       THEN Respond(200, runResult)
       ELSE Respond(500, [error |-> runResult.error, fatal |-> FALSE])
    /\ UNCHANGED <<handler, req, args, runStatus>>
    /\ UNCHANGED runFrame


\* ----------------------------------------------- generateBirthdayCard
gatewayFrame == <<handler, req, hpc, resp, args>>
N == Len(args.rsvpEmails.val)

\* a catch block that logs the error and does not rethrow: the function returns
Fail_Swallowed(msg) ==
    /\ runStatus' = "completed"
    /\ runResult' = [error |-> msg]
    /\ pc' = "done"

\* the catch block rethrows: the run fails with the error
Fail(msg) ==
    /\ runStatus' = "failed"
    /\ runResult' = [error |-> msg]
    /\ pc' = "done"

Running == runStatus = "running"

\* lines 39-40: rsvpEmails.join and eventDate?.toISOString() in the banner
BannerThrows(a) ==
    \/ a.rsvpEmails.type = "undefined"
    \/ (a.eventDate.type = "date" /\ a.eventDate.val = "Invalid Date")

BannerError(a) ==
    IF a.rsvpEmails.type = "undefined"
    THEN "TypeError: Cannot read properties of undefined (reading 'join')"
    ELSE "RangeError: Invalid time value"

\* lines 21-47: the banner and the call of generatePrompts
WfStart ==
    /\ Running /\ pc = "start"
    /\ IF BannerThrows(args)
       THEN /\ Fail(BannerError(args))
            /\ steps' = steps
       ELSE /\ steps' = Invoke(steps, {kPrompts})
            /\ pc' = "awaitPrompts"
            /\ UNCHANGED <<runStatus, runResult>>
    /\ UNCHANGED <<successes, hooks, timer, now, image, text, rsvpReplies,
                   restarts, notifyAt, sentParams, rsvpCalls>>
    /\ UNCHANGED gatewayFrame

\* lines 47-59: generatePrompts settled; both generations are called
WfAfterPrompts ==
    /\ Running /\ pc = "awaitPrompts"
    /\ Settled(kPrompts)
    /\ IF Exhausted(kPrompts)
       THEN /\ Fail(steps[kPrompts].out.val)
            /\ steps' = steps
       ELSE /\ steps' = Invoke(steps, {kImage, kMessage})
            /\ pc' = "awaitGeneration"
            /\ UNCHANGED <<runStatus, runResult>>
    /\ UNCHANGED <<successes, hooks, timer, now, image, text, rsvpReplies,
                   restarts, notifyAt, sentParams, rsvpCalls>>
    /\ UNCHANGED gatewayFrame

\* Promise.allSettled: never rejects
PromiseAll_Settled(K) ==
    IF \A k \in K : Settled(k) THEN "fulfilled" ELSE "pending"

\* Promise.any: fulfilled by the first success
PromiseAll_Any(K) ==
    IF \E k \in K : Succeeded(k) THEN "fulfilled"
    ELSE IF \A k \in K : Exhausted(k) THEN "rejected"
    ELSE "pending"

\* Promise.all: fulfilled when all are, rejected as soon as one is
PromiseAll(K) ==
    IF \E k \in K : Exhausted(k) THEN "rejected"
    ELSE IF \A k \in K : Succeeded(k) THEN "fulfilled"
    ELSE "pending"

\* a join that is not awaited: its rejection is lost and the function goes on
Reject_Unawaited(K) ==
    /\ pc' = IF pc = "awaitRsvpSent" THEN "awaitReplies" ELSE "awaitSleep"
    /\ UNCHANGED <<runStatus, runResult>>

\* the rejection carries the error of a failed step
Reject(K) == \E k \in K : Exhausted(k) /\ Fail(steps[k].out.val)

\* the RSVP branch taken for every guest list, the empty one too
HasGuests_Always == N >= 0

\* line 69: the guest list is not empty
HasGuests == N > 0

\* the sleep lasts until the event date: nothing for a past date, beyond the
\* model's clock for a far one
SleepFor_UntilEventDate(a) ==
    IF a.eventDate.type # "date" THEN sleepDuration
    ELSE IF a.eventDate.val = "2000-01-01" THEN 0
    ELSE MaxClock + 1

\* lines 29-31 and 114: sleep(sleepDuration), whatever the arguments are
SleepFor(a) == sleepDuration

\* every guest's mail carries the URL of the first webhook
RsvpCall_FirstUrl(i) == [email |-> args.rsvpEmails.val[i], webhookUrl |-> Url(1)]

\* line 79: requestRsvp(email, webhooks[i].url)
RsvpCall(i) == [email |-> args.rsvpEmails.val[i], webhookUrl |-> Url(i)]

\* lines 56-80 and 101-114: the join of the two generations, then either the
\* webhooks and the requestRsvp calls, or the sleep
WfAfterGeneration ==
    /\ Running /\ pc = "awaitGeneration"
    /\ PromiseAll({kImage, kMessage}) # "pending"
    /\ IF PromiseAll({kImage, kMessage}) = "rejected"
       THEN /\ Reject({kImage, kMessage})
            /\ UNCHANGED <<steps, hooks, timer, image, text, rsvpReplies, rsvpCalls>>
       ELSE /\ image' = steps[kImage].out.val
            /\ text' = steps[kMessage].out.val
            /\ rsvpReplies' = <<>>
            /\ UNCHANGED <<runStatus, runResult>>
            /\ IF HasGuests
               THEN /\ hooks' = createWebhook(hooks, N)
                    /\ steps' = Invoke(steps, {kRsvp(i) : i \in 1..N})
                    /\ rsvpCalls' = [i \in Tokens |->
                           IF i <= N /\ steps[kRsvp(i)].status = "none"
                           THEN RsvpCall(i) ELSE rsvpCalls[i]]
                    /\ pc' = "awaitRsvpSent"
                    /\ timer' = timer
               ELSE /\ timer' = sleep(timer, SleepFor(args))
                    /\ pc' = "awaitSleep"
                    /\ UNCHANGED <<steps, hooks, rsvpCalls>>
    /\ UNCHANGED <<successes, now, restarts, notifyAt, sentParams>>
    /\ UNCHANGED gatewayFrame

\* lines 78-87: all requestRsvp calls settled; the webhooks are awaited
WfAfterRsvpSent ==
    /\ Running /\ pc = "awaitRsvpSent"
    /\ PromiseAll({kRsvp(i) : i \in 1..N}) # "pending"
    /\ IF PromiseAll({kRsvp(i) : i \in 1..N}) = "rejected"
       THEN Reject({kRsvp(i) : i \in 1..N})
       ELSE /\ pc' = "awaitReplies"
            /\ UNCHANGED <<runStatus, runResult>>
    /\ UNCHANGED <<steps, successes, hooks, timer, now, image, text, rsvpReplies,
                   restarts, notifyAt, sentParams, rsvpCalls>>
    /\ UNCHANGED gatewayFrame

\* a join that leaves out the last webhook
AllResolved_ButLast(h, n) == \A i \in 1..(n - 1) : h[i].resolved

\* a join that is satisfied by the first resolved webhook
AllResolved_Any(h, n) == \E i \in 1..n : h[i].resolved

AllResolved(h, n) == \A i \in 1..n : h[i].resolved


\* lines 87-114: every webhook was triggered; the replies are collected and
\* the sleep starts
WfAfterReplies ==
    /\ Running /\ pc = "awaitReplies"
    /\ AllResolved(hooks, N)
    /\ rsvpReplies' = CollectReplies(hooks, N)
    /\ timer' = sleep(timer, SleepFor(args))
    /\ pc' = "awaitSleep"
    /\ UNCHANGED <<runStatus, runResult, steps, successes, hooks, now, image, text,
                   restarts, notifyAt, sentParams, rsvpCalls>>
    /\ UNCHANGED gatewayFrame

\* sleep() called without await
SleepOver_NoAwait(t) == t.created

SleepOver(t) == t.created /\ t.fired

\* the card is sent without the replies
NotifyParams_NoReplies ==
    [recipientEmail |-> args.recipientEmail, cardImage |-> image,
     cardText |-> text, rsvpReplies |-> <<>>]

\* lines 123-128: the argument of sendRecipientEmail
NotifyParams ==
    [recipientEmail |-> args.recipientEmail, cardImage |-> image,
     cardText |-> text, rsvpReplies |-> rsvpReplies]

\* lines 114-128: the sleep is over; sendRecipientEmail is called
WfAfterSleep ==
    /\ Running /\ pc = "awaitSleep"
    /\ SleepOver(timer)
    /\ steps' = Invoke(steps, {kNotify})
    /\ IF steps[kNotify].status = "none"
       THEN /\ notifyAt' = now
            /\ sentParams' = NotifyParams
       ELSE UNCHANGED <<notifyAt, sentParams>>
    /\ pc' = "awaitNotify"
    /\ UNCHANGED <<runStatus, runResult, successes, hooks, timer, now, image, text,
                   rsvpReplies, restarts, rsvpCalls>>
    /\ UNCHANGED gatewayFrame

\* lines 123-147: sendRecipientEmail settled; the result is returned
WfAfterNotify ==
    /\ Running /\ pc = "awaitNotify"
    /\ Settled(kNotify)
    /\ IF Exhausted(kNotify)
       THEN Fail(steps[kNotify].out.val)
       ELSE /\ runStatus' = "completed"
            /\ runResult' = [image |-> image, text |-> text, rsvpReplies |-> rsvpReplies]
            /\ pc' = "done"
    /\ UNCHANGED <<steps, successes, hooks, timer, now, image, text, rsvpReplies,
                   restarts, notifyAt, sentParams, rsvpCalls>>
    /\ UNCHANGED gatewayFrame


\* ------------------------------------------------ runtime: step attempts
\* One attempt of the body of step k ended with r.
Attempt(k, r) ==
    /\ steps[k].status = "scheduled"
    /\ steps' = [steps EXCEPT ![k] = Settle(@, r)]
    /\ successes' = [successes EXCEPT ![k] = IF r.ok THEN @ + 1 ELSE @]
    /\ UNCHANGED <<runStatus, runResult, hooks, timer, now, pc, image, text,
                   rsvpReplies, restarts, notifyAt, sentParams, rsvpCalls>>
    /\ UNCHANGED gatewayFrame

RunGeneratePrompts ==
    \E threw \in BOOLEAN : Attempt(kPrompts, generatePrompts(args.prompt.val, threw))

RunGenerateImage ==
    \E r \in ImageProviderResults : Attempt(kImage, generateImageStep(r))

RunGenerateMessage ==
    \E r \in TextProviderResults : Attempt(kMessage, generateMessage(r))

RunRequestRsvp ==
    \E i \in 1..MaxGuests, threw \in BOOLEAN :
        /\ i <= N
        /\ Attempt(kRsvp(i), requestRsvp(rsvpCalls[i].email, rsvpCalls[i].webhookUrl, threw))

RunSendRecipientEmail ==
    \E threw \in BOOLEAN : Attempt(kNotify, sendRecipientEmail(sentParams, threw))

\* --------------------------------------- runtime: webhook, timer, restart
\* Resolve that records every call, also on a resolved wait
Resolve_Overwrite(token, request) ==
    /\ IF token \in Tokens /\ hooks[token].created /\ Running
       THEN hooks' = [hooks EXCEPT ![token] =
                         [created |-> TRUE, resolved |-> TRUE, request |-> request,
                          order |-> IF @.resolved THEN @.order
                                    ELSE ResolvedCount(hooks) + 1]]
       ELSE hooks' = hooks
    /\ UNCHANGED <<runStatus, runResult, steps, successes, timer, now, pc, image, text,
                   rsvpReplies, restarts, notifyAt, sentParams, rsvpCalls>>
    /\ UNCHANGED gatewayFrame

\* An inbound call of a webhook URL carrying `request`.
Resolve(token, request) ==
    /\ IF token \in Tokens /\ hooks[token].created /\ ~hooks[token].resolved /\ Running
       THEN hooks' = [hooks EXCEPT ![token] =
                         [created |-> TRUE, resolved |-> TRUE, request |-> request,
                          order |-> ResolvedCount(hooks) + 1]]
       ELSE hooks' = hooks
    /\ UNCHANGED <<runStatus, runResult, steps, successes, timer, now, pc, image, text,
                   rsvpReplies, restarts, notifyAt, sentParams, rsvpCalls>>
    /\ UNCHANGED gatewayFrame

WebhookCall ==
    /\ runStatus # "none"
    /\ \E token \in Tokens \cup {UnknownToken}, request \in Requests :
          Resolve(token, request)

TimerFire ==
    /\ Running
    /\ timer.created /\ ~timer.fired
    /\ now >= timer.deadline
    /\ timer' = [timer EXCEPT !.fired = TRUE]
    /\ UNCHANGED <<runStatus, runResult, steps, successes, hooks, now, pc, image, text,
                   rsvpReplies, restarts, notifyAt, sentParams, rsvpCalls>>
    /\ UNCHANGED gatewayFrame

\* The clock is read only by the timer: it advances while the timer is pending.
Tick ==
    /\ Running /\ timer.created /\ ~timer.fired
    /\ now + TickSeconds <= MaxClock
    /\ now' = now + TickSeconds
    /\ UNCHANGED <<runStatus, runResult, steps, successes, hooks, timer, pc, image, text,
                   rsvpReplies, restarts, notifyAt, sentParams, rsvpCalls>>
    /\ UNCHANGED gatewayFrame

\* The orchestrating process is killed and started again: its position and
\* locals are lost, the workflow function is replayed from the top.
Restart ==
    /\ Running
    /\ pc # "start"
    /\ restarts < MaxRestarts
    /\ restarts' = restarts + 1
    /\ pc' = "start"
    /\ image' = NoImage
    /\ text' = ""
    /\ rsvpReplies' = <<>>
    /\ UNCHANGED <<runStatus, runResult, steps, successes, hooks, timer, now,
                   notifyAt, sentParams, rsvpCalls>>
    /\ UNCHANGED gatewayFrame

\* ------------------------------------------------------------------- Next
Next ==
    \/ POST_route
    \/ POST_full
    \/ POST_form
    \/ returnValue
    \/ WfStart
    \/ WfAfterPrompts
    \/ WfAfterGeneration
    \/ WfAfterRsvpSent
    \/ WfAfterReplies
    \/ WfAfterSleep
    \/ WfAfterNotify
    \/ RunGeneratePrompts
    \/ RunGenerateImage
    \/ RunGenerateMessage
    \/ RunRequestRsvp
    \/ RunSendRecipientEmail
    \/ WebhookCall
    \/ TimerFire
    \/ Tick
    \/ Restart

Spec == Init /\ [][Next]_vars

\* The runtime keeps running the workflow function whenever it can go on.
Orchestrate ==
    \/ WfStart
    \/ WfAfterPrompts
    \/ WfAfterGeneration
    \/ WfAfterRsvpSent
    \/ WfAfterReplies
    \/ WfAfterSleep
    \/ WfAfterNotify

FairSpec == Spec /\ WF_vars(Orchestrate)

\* The runtime runs the attempts of every scheduled step.
RunStep ==
    \/ RunGeneratePrompts
    \/ RunGenerateImage
    \/ RunGenerateMessage
    \/ RunRequestRsvp
    \/ RunSendRecipientEmail

\* A run the runtime keeps serving: the workflow function is resumed, scheduled
\* steps are attempted, time passes and a due timer fires.
LiveSpec ==
    /\ Spec
    /\ WF_vars(Orchestrate)
    /\ WF_vars(RunStep)
    /\ WF_vars(Tick)
    /\ WF_vars(TimerFire)

\* A served run whose guests all answer: every pending webhook is called.
RsvpLiveSpec == LiveSpec /\ WF_vars(WebhookCall)

TypeOK ==
    /\ hpc \in {"idle", "awaiting", "responded"}
    /\ runStatus \in {"none", "running", "completed", "failed"}
    /\ now \in 0..MaxClock
    /\ restarts \in 0..MaxRestarts

\* ================================================================= claims
ValidPrompt == ~NotAString(req.prompt)
ValidRecipient == ~NotAString(req.recipientEmail)
Posted == handler # "none"
ReqGuests == DefaultEmpty(req.rsvpEmails).val
Completed == runStatus = "completed"
Failed == runStatus = "failed"
Called(k) == steps[k].status # "none"

\* C1: no step key ever has more than one recorded success in a run, whatever
\* the interleaving of step completions, webhook calls and restarts: a step
\* whose result is recorded is not invoked again.
C1_AtMostOneSuccess ==
    /\ [](\A k \in StepKeys : successes[k] <= 1)
    /\ [][\A k \in StepKeys : Settled(k) => steps'[k] = steps[k]]_vars

\* C1 witness: after a restart the replay is back at the generation join while
\* every step up to sendRecipientEmail is already recorded.
C1_Witness ==
    /\ restarts > 0
    /\ pc = "awaitGeneration"
    /\ N > 0
    /\ \A i \in 1..N : Succeeded(kRsvp(i))
    /\ Succeeded(kNotify)

\* C2: the terminal outcome of a run, restarted or not, is the outcome the
\* recorded step results and the recorded webhook requests determine: Failed
\* exactly when a step exhausted its retries (or the function threw), else the
\* recorded image, the recorded text and one reply per webhook in index order.
C2_ReplayEquivalence ==
    /\ Completed =>
        /\ \A k \in {kPrompts, kImage, kMessage, kNotify} : Succeeded(k)
        /\ runResult = [image |-> steps[kImage].out.val,
                        text |-> steps[kMessage].out.val,
                        rsvpReplies |-> [i \in 1..N |-> ReplyOf(hooks[i].request)]]
    /\ Failed =>
        \/ BannerThrows(args)
        \/ \E k \in StepKeys : Exhausted(k)

\* C2 witness: a run with guests completed after a restart.
C2_Witness == Completed /\ restarts > 0 /\ N > 0

\* C3: sendRecipientEmail is not called before the sleep's timer reached its
\* deadline, and the timer does not fire before its deadline.
C3_SleepGating ==
    /\ Called(kNotify) => (timer.created /\ notifyAt >= timer.deadline)
    /\ timer.fired => now >= timer.deadline
    /\ timer.created => timer.deadline >= sleepDuration

\* C3 witness: sendRecipientEmail ran, at or after the deadline.
C3_Witness == Succeeded(kNotify) /\ notifyAt >= sleepDuration

EmailCount(replies, e) == Cardinality({i \in 1..Len(replies) : replies[i].email = e})
GuestCount(e) == Cardinality({i \in 1..N : args.rsvpEmails.val[i] = e})
ReplyEmails(replies) == {replies[i].email : i \in 1..Len(replies)}

\* C4: a completed run's rsvpReplies has length N and holds exactly one entry
\* for each guest email in rsvpEmails, for every payload the callbacks carry.
C4_FanOutCompleteness ==
    Completed =>
        /\ Len(runResult.rsvpReplies) = N
        /\ \A e \in Guests \cup ReplyEmails(runResult.rsvpReplies) :
              EmailCount(runResult.rsvpReplies, e) = GuestCount(e)

\* C5: with guests, the sleep is not started, sendRecipientEmail is not called
\* and the run does not complete while a webhook wait is unresolved; a run
\* that awaits the replies with a wait unresolved stays there (only a restart
\* takes the process back to its replay).
C5_RsvpJoin ==
    /\ []((N > 0 /\ (timer.created \/ Called(kNotify) \/ Completed))
            => \A i \in 1..N : hooks[i].resolved)
    /\ [][(pc = "awaitReplies" /\ \E i \in 1..N : ~hooks'[i].resolved)
            => (pc' \in {"awaitReplies", "start"} /\ runStatus' = "running")]_vars

\* C5 witness: two guests, one replied, the other did not: the run waits.
C5_Witness ==
    /\ N = 2
    /\ pc = "awaitReplies"
    /\ hooks[1].resolved /\ ~hooks[2].resolved
    /\ ~timer.created

\* C6, safety: once generateImage exhausted its retries the run can only be
\* Failed: sendRecipientEmail is never called, no timer and no webhook is
\* created, whatever the state of generateMessage.
C6_NothingAfterImageFailure ==
    Exhausted(kImage) =>
        /\ ~Completed
        /\ ~Called(kNotify)
        /\ ~timer.created
        /\ \A i \in Tokens : ~hooks[i].created
        /\ pc = "done" => Failed

\* C6, progress: under FairSpec a run whose generateImage exhausted its
\* retries ends Failed.
C6_EndsFailed == Exhausted(kImage) ~> Failed

\* C6: if generateImage exhausts its retries the run ends Failed, and
\* sendRecipientEmail is never called, no timer and no webhook is created,
\* whether generateMessage succeeded, failed or is still running (FairSpec).
C6_ImageFailure == []C6_NothingAfterImageFailure /\ C6_EndsFailed

\* C6 witness: the run Failed on generateImage although generateMessage succeeded.
C6_Witness == Exhausted(kImage) /\ Succeeded(kMessage) /\ Failed

\* C7: a resolved webhook wait keeps the request of its first resolution, a
\* token that was never created never becomes resolved, and the run never has
\* more replies than guests.
C7_IdempotentResolution ==
    /\ [](Len(rsvpReplies) <= N)
    /\ [][\A t \in Tokens :
            /\ hooks[t].resolved => hooks'[t] = hooks[t]
            /\ ~hooks[t].created => ~hooks'[t].resolved]_vars

\* C7 witness: a completed run with guests: every wait was resolved, and calls
\* of its URL kept arriving.
C7_Witness == Completed /\ N > 0 /\ Len(runResult.rsvpReplies) = N

\* C8: a valid request with guests is answered {status: started} by the
\* handler as soon as the run is started, without waiting for the run.
C8_StartedAtOnce ==
    (Posted /\ ValidPrompt /\ ValidRecipient /\ Len(ReqGuests) > 0) =>
        /\ hpc = "responded"
        /\ resp.status = 200
        /\ "status" \in DOMAIN resp.body
        /\ resp.body.status = "started"

AllStepsSucceeded == \A k \in StepKeys : steps[k].status \in {"none", "ok"}

\* C9: a valid prompt without guests whose steps all succeed is answered 200
\* with a non-empty image, a non-empty text and no replies.
C9_SynchronousResult ==
    (hpc = "responded" /\ ValidPrompt /\ Len(ReqGuests) = 0 /\ AllStepsSucceeded) =>
        /\ resp.status = 200
        /\ DOMAIN resp.body = {"image", "text", "rsvpReplies"}
        /\ resp.body.image # NoImage
        /\ resp.body.text # ""
        /\ resp.body.rsvpReplies = <<>>

\* C10: a request without a usable prompt or without a usable recipientEmail
\* is answered 400 and starts no run.
C10_ValidationFirst ==
    (Posted /\ (~ValidPrompt \/ ~ValidRecipient)) =>
        /\ runStatus = "none"
        /\ resp.status = 400

\* C11: every error response of a handler is one object with exactly the
\* fields error and fatal: status 400 with fatal true (validation failure or
\* FatalError), or status 500 with fatal false (any other failure).
C11_ErrorSurface ==
    (hpc = "responded" /\ resp.status # 200) =>
        /\ resp.status \in {400, 500}
        /\ DOMAIN resp.body = {"error", "fatal"}
        /\ resp.body.fatal = (resp.status = 400)

\* the tokens of the run's waits in the order of their resolution
ResolutionOrder ==
    [p \in 1..N |-> CHOOSE t \in 1..N : hooks[t].order = p]

\* C12 as stated: the replies of a completed run are in the order in which
\* the webhooks were resolved: with guests <<a, b>> and b's webhook resolved
\* first, b's reply comes first.
C12_ResolutionOrder ==
    (Completed /\ N > 0) =>
        runResult.rsvpReplies =
            [p \in 1..N |-> ReplyOf(hooks[ResolutionOrder[p]].request)]

\* C12 amended: the replies of a completed run are in the order of the guests
\* in rsvpEmails (the order of the webhooks), whatever the order in which the
\* webhooks were resolved.
C12_GuestOrder ==
    (Completed /\ N > 0) =>
        /\ \A t \in 1..N : hooks[t].order \in 1..N
        /\ \A t \in 1..N : runResult.rsvpReplies[t] = ReplyOf(hooks[t].request)

\* C12 witness: two guests, the second guest's webhook was resolved first and
\* with another request than the first guest's.
C12_Witness ==
    /\ Completed /\ N = 2
    /\ hooks[2].order = 1 /\ hooks[1].order = 2
    /\ ReplyOf(hooks[1].request) # ReplyOf(hooks[2].request)
    /\ runResult.rsvpReplies[1] = ReplyOf(hooks[1].request)

\* C13: the email of each reply of a completed run is the guest email that
\* was passed to requestRsvp for that webhook, whatever email parameter the
\* inbound call of the webhook carried.
C13_GuestIdentityBinding ==
    (Completed /\ N > 0) =>
        \A i \in 1..N : runResult.rsvpReplies[i].email = args.rsvpEmails.val[i]

\* C14: every reply value the run records is yes, no or no-response.
C14_ReplyDomain ==
    /\ \A i \in 1..Len(rsvpReplies) :
          rsvpReplies[i].reply \in {"yes", "no", "no-response"}
    /\ Completed =>
          \A i \in 1..Len(runResult.rsvpReplies) :
              runResult.rsvpReplies[i].reply \in {"yes", "no", "no-response"}

AllHooksCreated == \A j \in 1..N : hooks[j].created

\* C15: a run with N guests creates exactly N webhook waits, all N before
\* the first requestRsvp is invoked; requestRsvp is invoked once per guest
\* (and for nothing else), each time with that guest's email and the URL of
\* that guest's own webhook, so no two calls share a URL.
C15_FanOutOrdering ==
    /\ [](/\ \A i \in Tokens : hooks[i].created => (i <= N /\ AllHooksCreated)
          /\ \A i \in Tokens : Called(kRsvp(i)) =>
                /\ i <= N /\ AllHooksCreated
                /\ rsvpCalls[i].email = args.rsvpEmails.val[i]
                /\ rsvpCalls[i].webhookUrl = Url(i)
                /\ successes[kRsvp(i)] <= 1
          /\ \A i, j \in Tokens :
                (Called(kRsvp(i)) /\ Called(kRsvp(j)) /\ i # j) =>
                    rsvpCalls[i].webhookUrl # rsvpCalls[j].webhookUrl
          /\ (pc \in {"awaitRsvpSent", "awaitReplies"}) =>
                \A i \in 1..N : Called(kRsvp(i)))
    /\ [][\A i \in Tokens : Called(kRsvp(i)) => rsvpCalls'[i] = rsvpCalls[i]]_vars

\* C15 witness: two guests, both webhooks exist and both requestRsvp calls
\* succeeded, after a restart replayed the fan-out.
C15_Witness ==
    /\ N = 2 /\ restarts > 0
    /\ pc = "awaitReplies"
    /\ AllHooksCreated
    /\ Succeeded(kRsvp(1)) /\ Succeeded(kRsvp(2))

\* the run went on past the join of the two generations
PastGeneration ==
    \/ pc \in {"awaitRsvpSent", "awaitReplies", "awaitSleep", "awaitNotify"}
    \/ Completed
    \/ timer.created
    \/ Called(kNotify)
    \/ \E i \in Tokens : hooks[i].created \/ Called(kRsvp(i))

\* C16: generateImage and generateMessage are called together and only after
\* generatePrompts succeeded; whichever of the two completes first, the run
\* goes on past their join only when both have succeeded.
C16_ParallelGenerationJoin ==
    /\ (Called(kImage) \/ Called(kMessage)) =>
          Succeeded(kPrompts) /\ Called(kImage) /\ Called(kMessage)
    /\ PastGeneration => Succeeded(kImage) /\ Succeeded(kMessage)
    /\ (Completed \/ pc \in {"awaitRsvpSent", "awaitReplies", "awaitSleep", "awaitNotify"}) =>
          /\ image = steps[kImage].out.val
          /\ text = steps[kMessage].out.val

\* C16 witness: generateMessage, the second entry of the join, succeeded while
\* generateImage is still running, and the run is held at the join.
C16_Witness ==
    /\ Running /\ pc = "awaitGeneration"
    /\ Succeeded(kMessage)
    /\ steps[kImage].status = "scheduled"
    /\ ~PastGeneration

Terminal == Completed \/ Failed

\* C17: a run without guests waits for no webhook, and (its scheduled steps
\* being attempted until they succeed or exhaust their retries, and its timer
\* firing) it eventually reaches a terminal state, Completed or Failed.
C17_BoundedRunWithoutRsvp ==
    /\ []((runStatus # "none" /\ N = 0) => \A t \in Tokens : ~hooks[t].created)
    /\ (Running /\ N = 0) ~> Terminal

\* C17 witness: a run without guests completed after its sleep, and the
\* handler that awaited it answered with its result.
C17_Witness ==
    /\ Completed /\ N = 0
    /\ timer.fired /\ Succeeded(kNotify)
    /\ hpc = "responded" /\ resp.status = 200 /\ resp.body = runResult

\* C18: a run with N > 0 guests whose steps are attempted, whose webhooks are
\* all called (in any order, repeated calls included) and whose timer fires
\* ends Completed unless a step exhausted its retries; sendRecipientEmail is
\* invoked once, and only when all N webhooks are resolved and the timer has
\* fired at or after its deadline.
C18_CompletionWithRsvp ==
    /\ (Running /\ N > 0 /\ ~BannerThrows(args)) ~>
          (Completed \/ \E k \in StepKeys : Exhausted(k))
    /\ []((Called(kNotify) /\ N > 0) =>
            /\ ResolvedCount(hooks) = N
            /\ \A i \in 1..N : hooks[i].resolved
            /\ timer.fired /\ notifyAt >= timer.deadline
            /\ successes[kNotify] <= 1)
    /\ []((Completed /\ N > 0) => successes[kNotify] = 1)
    /\ [][Called(kNotify) => (sentParams' = sentParams /\ notifyAt' = notifyAt)]_vars

\* C18 witness: a run with as many guests as the bound completed with every
\* step succeeded at first and the mail to the recipient sent once.
C18_Witness ==
    /\ Completed /\ N = MaxGuests
    /\ AllStepsSucceeded
    /\ successes[kNotify] = 1
    /\ notifyAt >= timer.deadline
    /\ Len(runResult.rsvpReplies) = N

\* the handler answered {status: started}
Started ==
    /\ hpc = "responded" /\ resp.status = 200
    /\ "status" \in DOMAIN resp.body
    /\ resp.body.status = "started"

\* C19: once the handler answered {status: started}, nothing the run does
\* afterwards changes the response or produces another one: a failure of the
\* run shows only as the run's terminal state Failed, with its error.
C19_AsyncFailureSurface ==
    /\ [][Started => (resp' = resp /\ hpc' = hpc)]_vars
    /\ []((Started /\ \E k \in StepKeys : Exhausted(k) /\ ~Running) =>
            /\ Failed
            /\ "error" \in DOMAIN runResult
            /\ "error" \notin DOMAIN resp.body)

\* C19 witness: the handler answered started and the run Failed afterwards on
\* an exhausted step.
C19_Witness ==
    /\ Started /\ handler = "form"
    /\ Failed
    /\ \E k \in StepKeys : Exhausted(k)

\* C20: in a run without guests no webhook is created, requestRsvp is never
\* invoked, and rsvpReplies is empty in the function, in the parameters of
\* sendRecipientEmail and in the result; the run goes from the join of the two
\* generations straight to the sleep.
C20_NoGuestBranch ==
    /\ []((runStatus # "none" /\ N = 0) =>
            /\ \A i \in Tokens : ~hooks[i].created /\ ~Called(kRsvp(i))
            /\ \A i \in Tokens : rsvpCalls[i] = NoCall
            /\ rsvpReplies = <<>>
            /\ sentParams.rsvpReplies = <<>>
            /\ Completed => runResult.rsvpReplies = <<>>)
    /\ [][(N = 0 /\ pc = "awaitGeneration" /\ pc' \notin {"awaitGeneration", "start", "done"}) =>
            (pc' = "awaitSleep" /\ timer'.created)]_vars

\* C20 witness: a run without guests is asleep, its timer pending, before
\* sendRecipientEmail is invoked.
C20_Witness ==
    /\ Running /\ N = 0 /\ handler # "route"
    /\ pc = "awaitSleep"
    /\ timer.created /\ ~timer.fired
    /\ ~Called(kNotify)

AnyExhausted == \E k \in StepKeys : Exhausted(k)

\* C21: a step that exhausted its retries makes the run Failed, and Failed is
\* final; from the exhaustion on no step that was not yet called is called
\* and no webhook or timer is created (generatePrompts exhausted: neither
\* generation is called; sendRecipientEmail exhausted: no result); recorded
\* successes and resolved webhooks stay as they are.
C21_ForwardOnlyFailure ==
    /\ AnyExhausted ~> Failed
    /\ [](AnyExhausted => ~Completed)
    /\ [](Exhausted(kPrompts) => (~Called(kImage) /\ ~Called(kMessage)))
    /\ [][Failed => (runStatus' = "failed" /\ runResult' = runResult)]_vars
    /\ [][(AnyExhausted \/ Failed) =>
            /\ \A k \in StepKeys : ~Called(k) => steps'[k] = steps[k]
            /\ \A t \in Tokens : hooks'[t].created = hooks[t].created
            /\ timer'.created = timer.created]_vars
    /\ [][/\ \A k \in StepKeys : Succeeded(k) => steps'[k] = steps[k]
          /\ \A k \in StepKeys : successes'[k] >= successes[k]
          /\ \A t \in Tokens : hooks[t].resolved => hooks'[t] = hooks[t]]_vars

\* C21 witness: sendRecipientEmail exhausted its retries after every earlier
\* step succeeded and the guests answered: the run is Failed, the earlier
\* results are still recorded.
C21_Witness ==
    /\ Failed /\ Exhausted(kNotify)
    /\ N > 0 /\ \A i \in 1..N : Succeeded(kRsvp(i)) /\ hooks[i].resolved
    /\ Succeeded(kImage) /\ Succeeded(kMessage)
    /\ "error" \in DOMAIN runResult

RsvpExhausted == \E i \in Tokens : Exhausted(kRsvp(i))

\* C22 as stated: when a requestRsvp step exhausted its retries, the N
\* webhooks created before are all unresolved (and stay so).
C22_WebhooksStayUnresolved ==
    RsvpExhausted => \A t \in Tokens : ~hooks[t].resolved

\* C22 amended: when a requestRsvp step exhausted its retries the run becomes
\* Failed without ever awaiting the webhooks: no reply is collected, no timer
\* is created, sendRecipientEmail is not called; once the run is Failed, calls
\* of the webhook URLs change no webhook and do not revive the run.  (A guest
\* whose mail was sent may have resolved their webhook before the failure.)
C22_RsvpSendFailure ==
    /\ RsvpExhausted ~> Failed
    /\ [](RsvpExhausted =>
            /\ pc \notin {"awaitReplies", "awaitSleep", "awaitNotify"}
            /\ rsvpReplies = <<>>
            /\ ~timer.created
            /\ ~Called(kNotify)
            /\ ~Completed)
    /\ [][(RsvpExhausted /\ Failed) =>
            (hooks' = hooks /\ runStatus' = "failed" /\ rsvpReplies' = <<>>)]_vars

\* C22 witness: the mail to the first guest was sent and that guest answered,
\* then the mail to the second guest exhausted its retries: the run is Failed,
\* the second webhook is unresolved, no reply was collected.
C22_Witness ==
    /\ Failed /\ N = 2
    /\ Succeeded(kRsvp(1)) /\ Exhausted(kRsvp(2))
    /\ hooks[1].resolved /\ ~hooks[2].resolved
    /\ rsvpReplies = <<>>

C24_PositionsMatchInvitations ==
    (Completed /\ N > 0) =>
        /\ Len(runResult.rsvpReplies) = N
        /\ \A i \in 1..N :
              /\ rsvpCalls[i].email = args.rsvpEmails.val[i]
              /\ \A t \in Tokens :
                    rsvpCalls[i].webhookUrl = Url(t) =>
                        /\ hooks[t].resolved
                        /\ runResult.rsvpReplies[i] = ReplyOf(hooks[t].request)

\* C24 witness: the same address was invited twice, the second invitation was
\* answered first and the first was answered with an empty reply: only the
\* position tells the two replies apart.
C24_Witness ==
    /\ Completed /\ N = 2
    /\ args.rsvpEmails.val[1] = args.rsvpEmails.val[2]
    /\ hooks[2].order = 1
    /\ runResult.rsvpReplies[1].reply = "no-response"
    /\ runResult.rsvpReplies[2].reply = "yes"

\* C25: in a completed run sendRecipientEmail succeeded, and the image, text
\* and replies it was given are those of the returned result: the image and
\* the text are the one recorded result of generateImage and of
\* generateMessage, the replies are the ones collected from the webhooks.
C25_SentEqualsReturned ==
    Completed =>
        /\ Succeeded(kNotify) /\ successes[kNotify] = 1
        /\ sentParams.cardImage = runResult.image
        /\ sentParams.cardText = runResult.text
        /\ sentParams.rsvpReplies = runResult.rsvpReplies
        /\ sentParams.recipientEmail = args.recipientEmail
        /\ successes[kImage] = 1 /\ runResult.image = steps[kImage].out.val
        /\ successes[kMessage] = 1 /\ runResult.text = steps[kMessage].out.val
        /\ Len(runResult.rsvpReplies) = N
        /\ \A i \in 1..N : hooks[i].resolved
        /\ steps[kNotify].out.val.rsvpCount = N

\* C25 witness: a run with guests completed although the process was
\* restarted: the mail carried the replies the result carries.
C25_Witness ==
    /\ Completed /\ restarts > 0 /\ N > 0
    /\ sentParams.rsvpReplies = runResult.rsvpReplies
    /\ sentParams.rsvpReplies # <<>>
    /\ sentParams.cardImage = runResult.image
    /\ sentParams.cardText = runResult.text

====
